---- MODULE Spec2Model ----
(***************************************************************************)
(* The playback clock and seek engine of src/src/audio_player.rs.          *)
(*                                                                         *)
(* Time is counted in ticks of half a second, so that the 1.0 s threshold  *)
(* of seek has positions below it that differ from 0.  `now` is the        *)
(* monotonic clock (std::time::Instant); an Instant is the number of ticks *)
(* since the player was constructed and may be negative (now - position).  *)
(*                                                                         *)
(* AudioPlayer::seek is split at its blocking calls (the ffmpeg process,   *)
(* the file removal, the file open); `pc` is the place the call has        *)
(* reached.  play, pause and seek take &mut self, so no other call starts  *)
(* while pc # "idle"; only the clock and the output thread run then.       *)
(***************************************************************************)
EXTENDS Integers, FiniteSets, Sequences, TLC

\* ---- bounds of the model ------------------------------------------------
MaxDuration == 3      \* longest audio file, in ticks
MaxTime == 2          \* the clock stops advancing here
MaxFiles == 2         \* most whisper_seek_*.wav files on disk at a time
MaxParts == 4         \* most colon-separated fields of a time string
MaxNumber == 30       \* largest number typed in a field of a time string
MaxWorkers == 2       \* most recognition threads spawned in one run
MaxOutput == 1        \* most RealtimeOutput lines one recognition sends
MaxSubs == 2          \* most subtitle entries in the two parsed files together
MaxStart == 2         \* latest start time of a parsed subtitle entry
MaxCuts == 3          \* most cut points handed to cut_audio
MaxCutTime == 3       \* latest cut point

\* ---- program constants, in ticks ----------------------------------------
OneSecond == 2        \* `position < 1.0`
SeekWindow == 60      \* `.min(30.0)`

VARIABLES
    duration,        \* AudioPlayer.duration
    now,             \* Instant::now()
    start_time,      \* AudioPlayer.start_time
    paused_at,       \* AudioPlayer.paused_at : Option<f64>
    is_playing,      \* AudioPlayer.is_playing
    sink,            \* AudioPlayer.sink : the active rodio Sink
    temp_seek_file,  \* AudioPlayer.temp_seek_file : Option<PathBuf>
    disk,            \* the whisper_seek_*.wav files present in temp_dir
    pc,              \* where the running seek call is, "idle" between calls,
                     \* "dropped" once the player is gone; "unbuilt" before
                     \* AudioPlayer::new is called, "failed" once it
                     \* returned Err
    req,             \* seek: the argument `position` as passed by the caller
    seek_pos,        \* seek: `position` after the clamp of line 137
    seek_file,       \* seek: the Ok(seek_file) of create_seek_segment
    old_sink,        \* seek: the sink the call found, had it played on
    old_temp,        \* seek: the temp_seek_file the call found
    lastOp,          \* the call that returned last
    prevOp,          \* the call that returned before it
    opened,          \* whether the last call enqueued a newly opened source
    since,           \* ticks elapsed since the last call returned
    seen,            \* what the reads of the caller found so far: "none" when
                     \* nothing was read, "torn" when a read found the fields
                     \* between two writes of one call, "whole" otherwise
    typed,           \* manual cut: the fields the user typed, one by one
    time_str,        \* manual cut: the argument of parse_time_string
    result,          \* manual cut: what parse_time_string returned
    app_state,       \* WhisperApp.state
    audio_path,      \* WhisperApp.audio_path : Option<PathBuf>
    audio_player,    \* WhisperApp.audio_player, as far as the window reads
                     \* it: None, or Some of the player's is_playing
    app_is_playing,  \* WhisperApp.is_playing
    manual_segment,  \* WhisperApp.manual_segment.is_some()
    progress_receiver,   \* WhisperApp.progress_receiver: None, or Some of the
                         \* thread whose channel it receives from
    processing_progress, \* WhisperApp.processing_progress
    recognition_results, \* WhisperApp.recognition_results: for each entry,
                         \* the thread whose message pushed it
    started,         \* the number of recognition threads spawned so far
    worker_pc,       \* where each recognition thread is
    chan,            \* the messages waiting in the channel of each thread
    sent,            \* the messages each thread has sent or tried to send
    complete_subs,   \* srt_merger: the entries parsed from the complete file
    segment_subs,    \* srt_merger: the entries parsed from the segment file
    segment_start_time,  \* srt_merger: the offset of the segment
    adjusted_segment,    \* srt_merger: what adjust_segment_times returned
    merged,          \* srt_merger: what merge_subtitles returned
    srt_pc,          \* srt_merger: where insert_segment_subtitle is
    cut_points,      \* cut_audio: the cut points it was called with
    cut_pc,          \* cut_audio: where the call is
    cut_start_time,  \* cut_audio: its local start_time
    segments,        \* cut_audio: its local list of segment paths
    ffmpeg_calls,    \* cut_audio: the ffmpeg commands run so far
    cut_result       \* cut_audio: what the call returned

vars == <<duration, now, start_time, paused_at, is_playing, sink,
          temp_seek_file, disk, pc, req, seek_pos, seek_file, old_sink,
          old_temp, lastOp, prevOp, opened, since, seen, typed, time_str,
          result, app_state, audio_path, audio_player, app_is_playing,
          manual_segment, progress_receiver, processing_progress,
          recognition_results, started, worker_pc, chan, sent,
          complete_subs, segment_subs, segment_start_time, adjusted_segment,
          merged, srt_pc, cut_points, cut_pc, cut_start_time, segments,
          ffmpeg_calls, cut_result>>

\* The variables of insert_segment_subtitle and those of cut_audio.
srtVars == <<complete_subs, segment_subs, segment_start_time,
             adjusted_segment, merged, srt_pc>>

cutVars == <<cut_points, cut_pc, cut_start_time, segments, ffmpeg_calls,
             cut_result>>

\* The variables of the window and of its recognition threads.
appVars == <<app_state, audio_path, audio_player, app_is_playing,
             manual_segment, progress_receiver, processing_progress,
             recognition_results, started, worker_pc, chan, sent>>

\* The variables of the manual cut dialog, which the player never touches.
manualCut == <<typed, time_str, result>>

\* ---- Option<T> ----------------------------------------------------------
None == <<>>
Some(x) == <<x>>
IsSome(o) == o # <<>>
UnwrapOr(o, d) == IF o = <<>> THEN d ELSE o[1]

Min(a, b) == IF a < b THEN a ELSE b
Max(a, b) == IF a > b THEN a ELSE b

\* ---- WhisperApp::default -------------------------------------------------
Workers == 1..MaxWorkers

InitWhisperApp ==
    /\ app_state = "Idle"
    /\ audio_path = <<>>
    /\ audio_player = <<>>
    /\ app_is_playing = FALSE
    /\ manual_segment = FALSE
    /\ progress_receiver = <<>>
    /\ processing_progress = 0
    /\ recognition_results = <<>>
    /\ started = 0
    /\ worker_pc = [w \in Workers |-> "unborn"]
    /\ chan = [w \in Workers |-> <<>>]
    /\ sent = [w \in Workers |-> <<>>]

\* ---- manual_cut::parse_time_string --------------------------------------
\* A string is a sequence of characters.  A Result<f64>: state is "ok" with
\* the seconds in val, or "err" with the message in msg; "pending" before
\* the call.
Pending == [state |-> "pending", val |-> 0, msg |-> ""]
Ok(v) == [state |-> "ok", val |-> v, msg |-> ""]
Err(m) == [state |-> "err", val |-> 0, msg |-> m]

DigitChars == <<"0", "1", "2", "3", "4", "5", "6", "7", "8", "9">>
IsDigit(c) == \E i \in 1..10 : DigitChars[i] = c
DigitValue(c) == (CHOOSE i \in 1..10 : DigitChars[i] = c) - 1

\* The decimal numeral of an integer, as it is typed.
RECURSIVE Numeral(_)
Numeral(n) ==
    IF n < 0 THEN <<"-">> \o Numeral(0 - n)
    ELSE IF n < 10 THEN <<DigitChars[n + 1]>>
    ELSE Numeral(n \div 10) \o <<DigitChars[(n % 10) + 1]>>

\* str::split(':'): the pieces between the colons, empty ones included; a
\* string without a colon is one piece.
RECURSIVE Split(_, _)
Split(s, sep) ==
    IF \A i \in 1..Len(s) : s[i] # sep THEN <<s>>
    ELSE LET i == CHOOSE k \in 1..Len(s) :
                      s[k] = sep /\ \A j \in 1..(k - 1) : s[j] # sep
         IN <<SubSeq(s, 1, i - 1)>> \o Split(SubSeq(s, i + 1, Len(s)), sep)

\* The value of a string of digits, read from the left.
RECURSIVE DigitsValue(_)
DigitsValue(s) ==
    IF s = <<>> THEN 0
    ELSE 10 * DigitsValue(SubSeq(s, 1, Len(s) - 1)) + DigitValue(s[Len(s)])

\* str::parse::<f64> on the strings of the model: an optional sign and at
\* least one digit; anything else is a ParseFloatError.
ParseF64(s) ==
    LET neg == s # <<>> /\ s[1] = "-"
        body == IF neg THEN SubSeq(s, 2, Len(s)) ELSE s
    IN IF body # <<>> /\ \A i \in 1..Len(body) : IsDigit(body[i])
       THEN Ok(IF neg THEN 0 - DigitsValue(body) ELSE DigitsValue(body))
       ELSE Err("ParseFloatError")

\* parse_time_string with the hours weighted as minutes.
ParseTimeStringHoursAsMinutes(s) ==
    LET parts == Split(s, ":")
        f(i) == ParseF64(parts[i])
    IN IF Len(parts) = 1 THEN f(1)
       ELSE IF Len(parts) = 2
       THEN IF f(1).state = "err" THEN f(1)
            ELSE IF f(2).state = "err" THEN f(2)
            ELSE Ok(f(1).val * 60 + f(2).val)
       ELSE IF Len(parts) = 3
       THEN IF f(1).state = "err" THEN f(1)
            ELSE IF f(2).state = "err" THEN f(2)
            ELSE IF f(3).state = "err" THEN f(3)
            ELSE Ok(f(1).val * 60 + f(2).val * 60 + f(3).val)
       ELSE Err("Invalid time format")

\* Each `?` returns the error of the first field that does not parse.
ParseTimeString(s) ==
    LET parts == Split(s, ":")
        f(i) == ParseF64(parts[i])
    IN IF Len(parts) = 1 THEN f(1)
       ELSE IF Len(parts) = 2
       THEN IF f(1).state = "err" THEN f(1)
            ELSE IF f(2).state = "err" THEN f(2)
            ELSE Ok(f(1).val * 60 + f(2).val)
       ELSE IF Len(parts) = 3
       THEN IF f(1).state = "err" THEN f(1)
            ELSE IF f(2).state = "err" THEN f(2)
            ELSE IF f(3).state = "err" THEN f(3)
            ELSE Ok(f(1).val * 3600 + f(2).val * 60 + f(3).val)
       ELSE Err("Invalid time format")

\* What may be typed in one field: a number, or something that is none.
Numbers == {0 - 1, 0, 7, MaxNumber}
NotNumbers == {<<>>, <<"x">>, <<"1", "x">>, <<"-">>, <<" ", "5">>}
Fields ==
    [kind : {"number"}, n : Numbers, text : {<<>>}]
        \cup [kind : {"text"}, n : {0}, text : NotNumbers]

FieldText(fd) == IF fd.kind = "number" THEN Numeral(fd.n) ELSE fd.text

\* The fields with a colon between each two of them.
RECURSIVE Joined(_)
Joined(fds) ==
    IF Len(fds) = 1 THEN FieldText(fds[1])
    ELSE FieldText(fds[1]) \o <<":">> \o Joined(Tail(fds))

\* ---- rodio Sink ---------------------------------------------------------
\* src: what is queued ("none": Sink::empty()), pos: the offset in the
\* original audio that is heard next, end: the offset at which the queued
\* source runs out, paused: Sink::is_paused().
EmptySink(p) == [src |-> "none", pos |-> 0, end |-> 0, paused |-> p]

\* Sink::append of a source that starts at offset `from` and ends at `to`.
\* A source with nothing left to play is finished as soon as it is queued.
SinkAppend(s, kind, from, to) ==
    IF from >= to THEN EmptySink(s.paused)
    ELSE [src |-> kind, pos |-> from, end |-> to, paused |-> s.paused]

SinkPlay(s) == [s EXCEPT !.paused = FALSE]
SinkPause(s) == [s EXCEPT !.paused = TRUE]
\* Sink::stop drops everything that is queued.
SinkStop(s) == EmptySink(s.paused)
\* Sink::try_new: a new sink is empty and not paused.
NewSink == EmptySink(FALSE)

\* The output thread plays one tick of the queued source.
SinkAdvance(s) ==
    IF s.paused \/ s.src = "none" THEN s
    ELSE IF s.pos + 1 >= s.end THEN EmptySink(FALSE)
    ELSE [s EXCEPT !.pos = s.pos + 1]

\* ---- AudioPlayer::position ----------------------------------------------
\* Instant::elapsed saturates at zero.
Elapsed(start, t) == Max(t - start, 0)

\* position() without the clamp to the duration.
PositionAtNoClamp(p_at, start, t, dur) ==
    IF IsSome(p_at) THEN p_at[1] ELSE Elapsed(start, t)

\* position() with .max in the place of .min.
PositionAtMax(p_at, start, t, dur) ==
    IF IsSome(p_at) THEN p_at[1] ELSE Max(Elapsed(start, t), dur)

PositionAt(p_at, start, t, dur) ==
    IF IsSome(p_at) THEN p_at[1] ELSE Min(Elapsed(start, t), dur)

Position == PositionAt(paused_at, start_time, now, duration)

\* ---- no subtitle file is merged and no audio file is cut -----------------
InitNoSubtitles ==
    /\ complete_subs = <<>>
    /\ segment_subs = <<>>
    /\ segment_start_time = 0
    /\ adjusted_segment = <<>>
    /\ merged = <<>>
    /\ srt_pc = "none"

InitNoCutAudio ==
    /\ cut_points = <<>>
    /\ cut_pc = "none"
    /\ cut_start_time = 0
    /\ segments = <<>>
    /\ ffmpeg_calls = <<>>
    /\ cut_result = Pending

\* ---- AudioPlayer::new ---------------------------------------------------
\* The durations a file may have: none that the decoder knows of
\* (unwrap_or(0.0)), one below the threshold of the fast path, one above it.
Durations == {0, 1, MaxDuration}

Init ==
    /\ duration \in Durations
    /\ now = 0
    /\ start_time = 0
    /\ paused_at = Some(0)
    /\ is_playing = FALSE
    /\ sink = SinkPause(SinkAppend(NewSink, "orig", 0, duration))
    /\ temp_seek_file = None
    /\ disk = {}
    /\ pc = "idle"
    /\ req = 0
    /\ seek_pos = 0
    /\ seek_file = None
    /\ old_sink = NewSink
    /\ old_temp = None
    /\ lastOp = "new"
    /\ prevOp = "none"
    /\ opened = TRUE
    /\ since = 0
    /\ seen = "none"
    /\ InitWhisperApp
    /\ InitNoSubtitles
    /\ InitNoCutAudio
    /\ typed = <<>>
    /\ time_str = <<>>
    /\ result = Pending

\* The state before AudioPlayer::new is called: there is no player, and the
\* fields hold nothing that is read.
InitNewPlayer ==
    /\ duration = 0
    /\ now = 0
    /\ start_time = 0
    /\ paused_at = None
    /\ is_playing = FALSE
    /\ sink = NewSink
    /\ temp_seek_file = None
    /\ disk = {}
    /\ pc = "unbuilt"
    /\ req = 0
    /\ seek_pos = 0
    /\ seek_file = None
    /\ old_sink = NewSink
    /\ old_temp = None
    /\ lastOp = "none"
    /\ prevOp = "none"
    /\ opened = FALSE
    /\ since = 0
    /\ seen = "none"
    /\ InitWhisperApp

InitNew ==
    /\ InitNewPlayer
    /\ InitNoSubtitles
    /\ InitNoCutAudio
    /\ typed = <<>>
    /\ time_str = <<>>
    /\ result = Pending

\* How File::open followed by Decoder::new may end.
Loads == {"ok", "open_err", "decode_err"}

\* The first `?` of lines 24-36 that returns, "ok" when none does.
NewError(devOk, sinkOk, load1, load2) ==
    IF ~devOk THEN "device_err"
    ELSE IF ~sinkOk THEN "sink_err"
    ELSE IF load1 # "ok" THEN load1
    ELSE load2

\* new() that does not look at the result of loading the file a second
\* time.
NewUncheckedReload(devOk, sinkOk, load1, load2, dur) ==
    /\ pc = "unbuilt"
    /\ LET err == NewError(devOk, sinkOk, load1, "ok")
       IN IF err = "ok"
          THEN /\ duration' = dur
               /\ start_time' = now
               /\ paused_at' = Some(0)
               /\ is_playing' = FALSE
               /\ sink' = SinkPause(SinkAppend(NewSink, "orig", 0, dur))
               /\ temp_seek_file' = None
               /\ pc' = "idle"
               /\ lastOp' = "new"
               /\ opened' = TRUE
          ELSE /\ pc' = "failed"
               /\ lastOp' = err
               /\ UNCHANGED <<duration, start_time, paused_at, is_playing,
                              sink, temp_seek_file, opened>>
    /\ prevOp' = lastOp
    /\ UNCHANGED <<srtVars, cutVars, appVars, manualCut, seen, now, disk, req, seek_pos, seek_file, old_sink, old_temp,
                   since>>

\* AudioPlayer::new.  devOk: OutputStream::try_default succeeds; sinkOk:
\* Sink::try_new succeeds; load1, load2: how the two loads of the file end;
\* dur: total_duration() of the decoded file, 0 when it has none.
New(devOk, sinkOk, load1, load2, dur) ==
    /\ pc = "unbuilt"
    /\ LET err == NewError(devOk, sinkOk, load1, load2)
       IN IF err = "ok"
          THEN /\ duration' = dur
               /\ start_time' = now
               /\ paused_at' = Some(0)
               /\ is_playing' = FALSE
               /\ sink' = SinkPause(SinkAppend(NewSink, "orig", 0, dur))
               /\ temp_seek_file' = None
               /\ pc' = "idle"
               /\ lastOp' = "new"
               /\ opened' = TRUE
          ELSE /\ pc' = "failed"
               /\ lastOp' = err
               /\ UNCHANGED <<duration, start_time, paused_at, is_playing,
                              sink, temp_seek_file, opened>>
    /\ prevOp' = lastOp
    /\ UNCHANGED <<srtVars, cutVars, appVars, manualCut, seen, now, disk, req, seek_pos, seek_file, old_sink, old_temp,
                   since>>

\* ---- the clock and the output thread ------------------------------------
Tick ==
    /\ pc \notin {"unbuilt", "failed", "dropped"}
    /\ now < MaxTime
    /\ now' = now + 1
    /\ sink' = SinkAdvance(sink)
    /\ since' = IF pc = "idle" THEN since + 1 ELSE since
    /\ old_sink' = SinkAdvance(old_sink)
    /\ UNCHANGED <<srtVars, cutVars, appVars, manualCut, seen, duration, start_time, paused_at, is_playing,
                   temp_seek_file, disk, pc, req, seek_pos,
                   seek_file, old_temp, lastOp, prevOp, opened>>

\* ---- AudioPlayer::play --------------------------------------------------
\* play() that anchors the clock at now, losing the paused offset.
PlayAnchorNow(t, p_at) == t

\* The anchor play() computes: now - paused_at.unwrap_or(0.0).
PlayAnchor(t, p_at) == t - UnwrapOr(p_at, 0)

\* play() that enqueues the reopened file from its start, without the skip.
PlayReloadFromStart(openOk) ==
    /\ pc = "idle"
    /\ LET reload == sink.src = "none" /\ openOk
           s1 == IF reload
                 THEN SinkAppend(sink, "orig", 0, duration)
                 ELSE sink
       IN /\ sink' = SinkPlay(s1)
          /\ opened' = reload
    /\ start_time' = PlayAnchor(now, paused_at)
    /\ paused_at' = None
    /\ is_playing' = TRUE
    /\ lastOp' = "play"
    /\ prevOp' = lastOp
    /\ since' = 0
    /\ UNCHANGED <<srtVars, cutVars, appVars, manualCut, seen, duration, now, temp_seek_file, disk, pc,
                   req, seek_pos, seek_file, old_sink, old_temp>>

\* openOk: File::open and Decoder::new of audio_path succeed.
Play(openOk) ==
    /\ pc = "idle"
    /\ LET reload == sink.src = "none" /\ openOk
           s1 == IF reload
                 THEN SinkAppend(sink, "orig", UnwrapOr(paused_at, 0), duration)
                 ELSE sink
       IN /\ sink' = SinkPlay(s1)
          /\ opened' = reload
    /\ start_time' = PlayAnchor(now, paused_at)
    /\ paused_at' = None
    /\ is_playing' = TRUE
    /\ lastOp' = "play"
    /\ prevOp' = lastOp
    /\ since' = 0
    /\ UNCHANGED <<srtVars, cutVars, appVars, manualCut, seen, duration, now, temp_seek_file, disk, pc, req,
                   seek_pos, seek_file, old_sink, old_temp>>

\* ---- AudioPlayer::pause -------------------------------------------------
\* pause() that reads the clock itself, without the clamp of position().
PausedOffsetRaw(p_at, start, t, dur) ==
    IF IsSome(p_at) THEN p_at[1] ELSE Elapsed(start, t)

\* pause() that reads the clock also when the player is already paused.
PausedOffsetFromClock(p_at, start, t, dur) == Min(Elapsed(start, t), dur)

\* let current_pos = self.position();
PausedOffset(p_at, start, t, dur) == PositionAt(p_at, start, t, dur)

Pause ==
    /\ pc = "idle"
    /\ sink' = SinkPause(sink)
    /\ paused_at' = Some(PausedOffset(paused_at, start_time, now, duration))
    /\ is_playing' = FALSE
    /\ lastOp' = "pause"
    /\ prevOp' = lastOp
    /\ opened' = FALSE
    /\ since' = 0
    /\ UNCHANGED <<srtVars, cutVars, appVars, manualCut, seen, duration, now, start_time, temp_seek_file, disk,
                   pc, req, seek_pos, seek_file, old_sink, old_temp>>

\* ---- AudioPlayer::seek --------------------------------------------------
\* The clamp without its upper bound.
ClampLowerOnly(p, dur) == Max(p, 0)

\* position.max(0.0).min(self.duration)
Clamp(p, dur) == Min(Max(p, 0), dur)

\* The arguments a caller may pass: every offset of the file, and one tick
\* before its start and after its end.
SeekTargets == (0 - 1)..(duration + 1)

\* seek that anchors the clock at now, losing the target.
SeekAnchorNow(t, pos) == t

\* The anchor seek computes when the player was playing: now - position.
SeekAnchor(t, pos) == t - pos

\* seek that clears the paused offset also when the player was not playing.
SeekPausedAtCleared(pos) == None

\* The offset seek records when the player was not playing.
SeekPausedAt(pos) == Some(pos)

\* The window without its cap of 30 s.
DurationToExtractUncapped(dur, pos) == dur - pos

\* (self.duration - position).min(30.0)
DurationToExtract(dur, pos) == Min(dur - pos, SeekWindow)

\* The block without new_sink.pause(): a new sink is not paused, so the
\* source starts at once also when the player was paused.
ReplaceStarted(kind, from, to) ==
    /\ sink' = SinkPlay(SinkAppend(NewSink, kind, from, to))
    /\ start_time' = IF is_playing THEN SeekAnchor(now, seek_pos)
                     ELSE start_time
    /\ paused_at' = IF is_playing THEN None ELSE SeekPausedAt(seek_pos)

\* The block that follows a successful open in each of the three paths:
\* the new sink gets the source, is started or suspended as the old one
\* was, the clock is re-anchored and the new sink replaces the old one.
Replace(kind, from, to) ==
    /\ sink' = IF is_playing
               THEN SinkPlay(SinkAppend(NewSink, kind, from, to))
               ELSE SinkPause(SinkAppend(NewSink, kind, from, to))
    /\ start_time' = IF is_playing THEN SeekAnchor(now, seek_pos)
                     ELSE start_time
    /\ paused_at' = IF is_playing THEN None ELSE SeekPausedAt(seek_pos)

\* The call returns.
Return(wasOpened) ==
    /\ pc' = "idle"
    /\ lastOp' = "seek"
    /\ prevOp' = lastOp
    /\ opened' = wasOpened
    /\ since' = 0
    /\ seek_file' = None
    /\ old_sink' = NewSink
    /\ old_temp' = None

\* Lines 137-147: clamp, stop the old sink, create the new one, pick a path.
\* sinkOk: Sink::try_new succeeds.
SeekBegin(p, sinkOk) ==
    /\ pc = "idle"
    /\ Clamp(p, duration) >= OneSecond => Cardinality(disk) < MaxFiles
    /\ req' = p
    /\ seek_pos' = Clamp(p, duration)
    /\ sink' = SinkStop(sink)
    /\ since' = 0
    /\ IF sinkOk
       THEN /\ pc' = IF Clamp(p, duration) < OneSecond
                     THEN "slow_open" ELSE "transcode"
            /\ old_sink' = sink
            /\ old_temp' = temp_seek_file
            /\ UNCHANGED <<lastOp, prevOp, opened>>
       ELSE /\ pc' = "idle"
            /\ lastOp' = "seek"
            /\ prevOp' = lastOp
            /\ opened' = FALSE
            /\ UNCHANGED <<old_sink, old_temp>>
    /\ UNCHANGED <<srtVars, cutVars, appVars, manualCut, seen, duration, now, start_time, paused_at, is_playing,
                   temp_seek_file, disk, seek_file>>

\* Lines 148-165: the slow path. openOk: audio_path opens and decodes.
SeekSlow(openOk) ==
    /\ pc = "slow_open"
    /\ IF openOk
       THEN Replace("orig", seek_pos, duration)
       ELSE UNCHANGED <<sink, start_time, paused_at>>
    /\ Return(openOk)
    /\ UNCHANGED <<srtVars, cutVars, appVars, manualCut, seen, duration, now, is_playing, temp_seek_file, disk, req,
                   seek_pos>>

\* temp_dir.join(format!("whisper_seek_{}.wav", millis)): a name that no file
\* on disk has.  Only the equality of names matters, so the name of a
\* deleted file is used again.
TempFileName(files) ==
    CHOOSE n \in 1..(Cardinality(files) + 1) :
        n \notin files /\ \A m \in 1..(n - 1) : m \in files

\* create_seek_segment.  exitOk: ffmpeg was started and exited with status
\* 0; wrote: it left its output file in temp_dir (a failing ffmpeg may
\* leave a partial file, one that was never started leaves none).
CreateSeekSegment(exitOk, wrote) ==
    /\ pc = "transcode"
    /\ disk' = IF wrote THEN disk \cup {TempFileName(disk)} ELSE disk
    /\ IF exitOk
       THEN /\ seek_file' = Some(TempFileName(disk))
            /\ pc' = "cleanup"
       ELSE /\ seek_file' = None
            /\ pc' = "fallback_open"
    /\ UNCHANGED <<srtVars, cutVars, appVars, manualCut, seen, duration, now, start_time, paused_at, is_playing, sink,
                   temp_seek_file, req, seek_pos, old_sink, old_temp,
                   lastOp, prevOp, opened, since>>

\* cleanup_temp_seek_file, as called on line 172.
CleanupTempSeekFile ==
    /\ pc = "cleanup"
    /\ disk' = IF IsSome(temp_seek_file) THEN disk \ {temp_seek_file[1]}
               ELSE disk
    /\ temp_seek_file' = None
    /\ pc' = "fast_open"
    /\ UNCHANGED <<srtVars, cutVars, appVars, manualCut, seen, duration, now, start_time, paused_at, is_playing, sink,
                   req, seek_pos, seek_file, old_sink, old_temp, lastOp,
                   prevOp, opened, since>>

\* The fast path that does not record the file it enqueued.
SeekFastUnregistered(openOk) ==
    /\ pc = "fast_open"
    /\ openOk => seek_file[1] \in disk
    /\ IF openOk
       THEN /\ Replace("seg", seek_pos,
                       seek_pos + DurationToExtract(duration, seek_pos))
            /\ UNCHANGED temp_seek_file
       ELSE UNCHANGED <<sink, start_time, paused_at, temp_seek_file>>
    /\ Return(openOk)
    /\ UNCHANGED <<srtVars, cutVars, appVars, manualCut, seen, duration, now, is_playing, disk, req,
                   seek_pos>>

\* Lines 174-193: the fast path. openOk: seek_file opens and decodes, which
\* takes the file to be there.
SeekFast(openOk) ==
    /\ pc = "fast_open"
    /\ openOk => seek_file[1] \in disk
    /\ IF openOk
       THEN /\ Replace("seg", seek_pos,
                       seek_pos + DurationToExtract(duration, seek_pos))
            /\ temp_seek_file' = seek_file
       ELSE UNCHANGED <<sink, start_time, paused_at, temp_seek_file>>
    /\ Return(openOk)
    /\ UNCHANGED <<srtVars, cutVars, appVars, manualCut, seen, duration, now, is_playing, disk, req, seek_pos>>

\* The fallback without the clock update of its paused branch.
SeekFallbackNoOffset(openOk) ==
    /\ pc = "fallback_open"
    /\ IF openOk
       THEN /\ sink' = IF is_playing
                       THEN SinkPlay(SinkAppend(NewSink, "orig", seek_pos,
                                                duration))
                       ELSE SinkPause(SinkAppend(NewSink, "orig", seek_pos,
                                                 duration))
            /\ start_time' = IF is_playing THEN SeekAnchor(now, seek_pos)
                             ELSE start_time
            /\ paused_at' = IF is_playing THEN None ELSE paused_at
       ELSE UNCHANGED <<sink, start_time, paused_at>>
    /\ Return(openOk)
    /\ UNCHANGED <<srtVars, cutVars, appVars, manualCut, seen, duration, now, is_playing, temp_seek_file, disk, req,
                   seek_pos>>

\* Lines 195-216: ffmpeg failed, the slow path on the original file.
SeekFallback(openOk) ==
    /\ pc = "fallback_open"
    /\ IF openOk
       THEN Replace("orig", seek_pos, duration)
       ELSE UNCHANGED <<sink, start_time, paused_at>>
    /\ Return(openOk)
    /\ UNCHANGED <<srtVars, cutVars, appVars, manualCut, seen, duration, now, is_playing, temp_seek_file, disk, req,
                   seek_pos>>

\* ---- play, pause and seek, one write of a field at a time ----------------
\* Each field is behind a Mutex of its own, locked for the one statement that
\* writes it; the steps below end where such a statement ends.

\* Lines 54-71 of play: the sink, then start_time.
PlayBegin(openOk) ==
    /\ pc = "idle"
    /\ LET reload == sink.src = "none" /\ openOk
           s1 == IF reload
                 THEN SinkAppend(sink, "orig", UnwrapOr(paused_at, 0), duration)
                 ELSE sink
       IN /\ sink' = SinkPlay(s1)
          /\ opened' = reload
    /\ start_time' = PlayAnchor(now, paused_at)
    /\ pc' = "play_clear"
    /\ UNCHANGED <<srtVars, cutVars, appVars, manualCut, seen, duration, now, paused_at, is_playing,
                   temp_seek_file, disk, req, seek_pos, seek_file, old_sink,
                   old_temp, lastOp, prevOp, since>>

\* Line 72 of play.
PlayClearPausedAt ==
    /\ pc = "play_clear"
    /\ paused_at' = None
    /\ pc' = "play_flag"
    /\ UNCHANGED <<srtVars, cutVars, appVars, manualCut, seen, duration, now, start_time, is_playing, sink,
                   temp_seek_file, disk, req, seek_pos, seek_file, old_sink,
                   old_temp, lastOp, prevOp, opened, since>>

\* Line 73 of play, and the return.
PlaySetIsPlaying ==
    /\ pc = "play_flag"
    /\ is_playing' = TRUE
    /\ pc' = "idle"
    /\ lastOp' = "play"
    /\ prevOp' = lastOp
    /\ since' = 0
    /\ UNCHANGED <<srtVars, cutVars, appVars, manualCut, seen, duration, now, start_time, paused_at, sink,
                   temp_seek_file, disk, req, seek_pos, seek_file, old_sink,
                   old_temp, opened>>

\* Lines 78-83 of pause: the sink, then paused_at.
PauseBegin ==
    /\ pc = "idle"
    /\ sink' = SinkPause(sink)
    /\ paused_at' = Some(PausedOffset(paused_at, start_time, now, duration))
    /\ pc' = "pause_flag"
    /\ UNCHANGED <<srtVars, cutVars, appVars, manualCut, seen, duration, now, start_time, is_playing,
                   temp_seek_file, disk, req, seek_pos, seek_file, old_sink,
                   old_temp, lastOp, prevOp, opened, since>>

\* Line 84 of pause, and the return.
PauseSetIsPlaying ==
    /\ pc = "pause_flag"
    /\ is_playing' = FALSE
    /\ pc' = "idle"
    /\ lastOp' = "pause"
    /\ prevOp' = lastOp
    /\ opened' = FALSE
    /\ since' = 0
    /\ UNCHANGED <<srtVars, cutVars, appVars, manualCut, seen, duration, now, start_time, paused_at, sink,
                   temp_seek_file, disk, req, seek_pos, seek_file, old_sink,
                   old_temp>>

\* seek, from the open of its path to the write of start_time (lines 148-156,
\* 174-181, 198-206).  openOk: the file of the path opens and decodes.
SeekOpen(openOk) ==
    /\ pc \in {"slow_open", "fast_open", "fallback_open"}
    /\ (pc = "fast_open" /\ openOk) => seek_file[1] \in disk
    /\ IF openOk
       THEN /\ start_time' = IF is_playing THEN SeekAnchor(now, seek_pos)
                             ELSE start_time
            /\ pc' = "seek_commit"
            /\ UNCHANGED <<lastOp, prevOp, opened, since, seek_file,
                           old_sink, old_temp>>
       ELSE /\ UNCHANGED start_time
            /\ Return(FALSE)
    /\ UNCHANGED <<srtVars, cutVars, appVars, manualCut, seen, duration, now, paused_at, is_playing, sink,
                   temp_seek_file, disk, req, seek_pos>>

\* seek, from the write of paused_at to the return (lines 157-163, 182-191,
\* 207-213): the new sink replaces the old one, and the fast path registers
\* its file.
SeekCommit ==
    /\ pc = "seek_commit"
    /\ LET kind == IF IsSome(seek_file) THEN "seg" ELSE "orig"
           to == IF IsSome(seek_file)
                 THEN seek_pos + DurationToExtract(duration, seek_pos)
                 ELSE duration
       IN sink' = IF is_playing
                  THEN SinkPlay(SinkAppend(NewSink, kind, seek_pos, to))
                  ELSE SinkPause(SinkAppend(NewSink, kind, seek_pos, to))
    /\ paused_at' = IF is_playing THEN None ELSE SeekPausedAt(seek_pos)
    /\ temp_seek_file' = IF IsSome(seek_file) THEN seek_file
                         ELSE temp_seek_file
    /\ Return(TRUE)
    /\ UNCHANGED <<srtVars, cutVars, appVars, manualCut, seen, duration, now, start_time, is_playing, disk, req,
                   seek_pos>>

\* The states in which a call has written one of is_playing, start_time and
\* paused_at and has still to write another.
MidUpdate ==
    \/ pc \in {"play_clear", "play_flag", "pause_flag"}
    \/ pc = "seek_commit" /\ is_playing

\* A caller that could read while a call is running.
CanReadShared == pc \notin {"unbuilt", "failed", "dropped"}

\* position() takes &self while play, pause and seek take &mut self, and the
\* player is owned by the one thread that runs the window: a read starts only
\* when no call is running.
CanRead == pc = "idle"

\* position(), or any other read of the player.
PositionRead ==
    /\ CanRead
    /\ seen' = IF MidUpdate \/ seen = "torn" THEN "torn" ELSE "whole"
    /\ UNCHANGED <<srtVars, cutVars, appVars, manualCut, duration, now, start_time, paused_at,
                   is_playing, sink, temp_seek_file, disk, pc, req, seek_pos,
                   seek_file, old_sink, old_temp, lastOp, prevOp, opened,
                   since>>

\* ---- Drop for AudioPlayer -----------------------------------------------
\* cleanup_temp_seek_file, then the fields are dropped: the sink stops.
Drop ==
    /\ pc = "idle"
    /\ disk' = IF IsSome(temp_seek_file) THEN disk \ {temp_seek_file[1]}
               ELSE disk
    /\ temp_seek_file' = None
    /\ sink' = SinkStop(sink)
    /\ pc' = "dropped"
    /\ lastOp' = "drop"
    /\ prevOp' = lastOp
    /\ opened' = FALSE
    /\ since' = 0
    /\ UNCHANGED <<srtVars, cutVars, appVars, manualCut, seen, duration, now, start_time, paused_at, is_playing, req,
                   seek_pos, seek_file, old_sink, old_temp>>

Next ==
    \/ Tick
    \/ \E openOk \in BOOLEAN : Play(openOk)
    \/ Pause
    \/ \E p \in SeekTargets, sinkOk \in BOOLEAN : SeekBegin(p, sinkOk)
    \/ \E openOk \in BOOLEAN : SeekSlow(openOk)
    \/ \E exitOk \in BOOLEAN, wrote \in BOOLEAN :
           CreateSeekSegment(exitOk, wrote)
    \/ CleanupTempSeekFile
    \/ \E openOk \in BOOLEAN : SeekFast(openOk)
    \/ \E openOk \in BOOLEAN : SeekFallback(openOk)
    \/ Drop

Spec == Init /\ [][Next]_vars

\* The player from before its construction on.
NextNew ==
    \/ \E devOk \in BOOLEAN, sinkOk \in BOOLEAN, load1 \in Loads,
          load2 \in Loads, dur \in Durations :
           New(devOk, sinkOk, load1, load2, dur)
    \/ Next

SpecNew == InitNew /\ [][NextNew]_vars

\* ---- a time string is typed and parsed ----------------------------------
InitCut ==
    /\ InitNewPlayer
    /\ InitNoSubtitles
    /\ InitNoCutAudio
    /\ typed \in UNION {[1..k -> Fields] : k \in 1..MaxParts}
    /\ time_str = Joined(typed)
    /\ result = Pending

ParseTimeStringCall ==
    /\ result.state = "pending"
    /\ result' = ParseTimeString(time_str)
    /\ UNCHANGED <<srtVars, cutVars, appVars, typed, time_str, duration, now, start_time, paused_at,
                   is_playing, sink, temp_seek_file, disk, pc, req, seek_pos,
                   seek_file, old_sink, old_temp, lastOp, prevOp, opened,
                   since, seen>>

NextCut == ParseTimeStringCall

SpecCut == InitCut /\ [][NextCut]_vars

\* ---- seeks in files longer than the window of the fast path --------------
\* The durations around the 30 s of the window: a file that ends inside the
\* window wherever the seek lands, one as long as the window, longer ones.
LongDurations == {OneSecond, SeekWindow, SeekWindow + MaxDuration}

InitLong ==
    /\ duration \in LongDurations
    /\ now = 0
    /\ start_time = 0
    /\ paused_at = Some(0)
    /\ is_playing = FALSE
    /\ sink = SinkPause(SinkAppend(NewSink, "orig", 0, duration))
    /\ temp_seek_file = None
    /\ disk = {}
    /\ pc = "idle"
    /\ req = 0
    /\ seek_pos = 0
    /\ seek_file = None
    /\ old_sink = NewSink
    /\ old_temp = None
    /\ lastOp = "new"
    /\ prevOp = "none"
    /\ opened = TRUE
    /\ since = 0
    /\ seen = "none"
    /\ InitWhisperApp
    /\ InitNoSubtitles
    /\ InitNoCutAudio
    /\ typed = <<>>
    /\ time_str = <<>>
    /\ result = Pending

\* The targets at which the path or the window of a seek changes: the ends
\* of the file, the threshold of the fast path, and the offsets from which
\* less than a window is left.
LongTargets ==
    {0 - 1, 0, OneSecond - 1, OneSecond, duration - SeekWindow - 1,
     duration - SeekWindow, duration - SeekWindow + 1, duration - 1,
     duration, duration + 1}

\* The seeks of a player that is started at most once; the clock stands.
NextLong ==
    \/ \E openOk \in BOOLEAN : Play(openOk) /\ ~is_playing
    \/ \E p \in LongTargets, sinkOk \in BOOLEAN : SeekBegin(p, sinkOk)
    \/ \E openOk \in BOOLEAN : SeekSlow(openOk)
    \/ \E exitOk \in BOOLEAN, wrote \in BOOLEAN :
           CreateSeekSegment(exitOk, wrote)
    \/ CleanupTempSeekFile
    \/ \E openOk \in BOOLEAN : SeekFast(openOk)
    \/ \E openOk \in BOOLEAN : SeekFallback(openOk)

SpecLong == InitLong /\ [][NextLong]_vars

\* The player with the writes of its fields as separate steps, and a reader.
NextFields ==
    \/ Tick
    \/ \E openOk \in BOOLEAN : PlayBegin(openOk)
    \/ PlayClearPausedAt
    \/ PlaySetIsPlaying
    \/ PauseBegin
    \/ PauseSetIsPlaying
    \/ \E p \in SeekTargets, sinkOk \in BOOLEAN : SeekBegin(p, sinkOk)
    \/ \E exitOk \in BOOLEAN, wrote \in BOOLEAN :
           CreateSeekSegment(exitOk, wrote)
    \/ CleanupTempSeekFile
    \/ \E openOk \in BOOLEAN : SeekOpen(openOk)
    \/ SeekCommit
    \/ PositionRead
    \/ Drop

SpecFields == Init /\ [][NextFields]_vars

\* ==== the window: WhisperApp ==============================================
\* The window holds the player, the file paths, the state of the work and the
\* receiving end of the channel of the recognition thread.  start_recognition
\* and stop_recognition are behind buttons that are drawn only when
\* audio_segments is not empty (main.rs 882), and nothing in the program puts
\* an element into audio_segments: the only recognition the window can start
\* is that of the manual segment.

playerVars == <<duration, now, start_time, paused_at, is_playing, sink,
                temp_seek_file, disk, pc, req, seek_pos, seek_file, old_sink,
                old_temp, lastOp, prevOp, opened, since>>

\* AudioPlayer::new leaves the player paused; play() and pause() set the flag.
NewPlayer == [is_playing |-> FALSE]

\* ---- WhisperApp::handle_dropped_file -------------------------------------
\* isAudio: the extension is one of the audio extensions, and load_audio_file
\* runs; otherwise extract_audio runs and ffmpeg succeeds (extractOk) or not.
\* playerOk: AudioPlayer::new returned Ok.
HandleDroppedFile(isAudio, extractOk, playerOk) ==
    LET loaded == isAudio \/ extractOk
    IN /\ app_state' = IF loaded THEN "AudioExtracted" ELSE "Idle"
       /\ audio_path' = IF loaded THEN Some("audio") ELSE None
       /\ audio_player' = IF loaded /\ playerOk THEN Some(NewPlayer) ELSE None
       /\ recognition_results' = <<>>
       /\ UNCHANGED <<app_is_playing, manual_segment, progress_receiver,
                      processing_progress, started, worker_pc, chan, sent>>
       /\ UNCHANGED <<srtVars, cutVars, playerVars, seen, manualCut>>

\* ---- the Play / Pause button of update -----------------------------------
PlayPauseClicked ==
    /\ app_state # "Idle"
    /\ IF IsSome(audio_player)
       THEN /\ audio_player' = Some([is_playing |-> ~app_is_playing])
            /\ app_is_playing' = ~app_is_playing
       ELSE UNCHANGED <<audio_player, app_is_playing>>
    /\ UNCHANGED <<app_state, audio_path, manual_segment, progress_receiver,
                   processing_progress, recognition_results, started,
                   worker_pc, chan, sent>>
    /\ UNCHANGED <<srtVars, cutVars, playerVars, seen, manualCut>>

\* ---- WhisperApp::cut_manual_segment --------------------------------------
\* cutOk: both times parse and cut_audio_segment returns Ok.
CutManualSegment(cutOk) ==
    /\ app_state \notin {"Idle", "Processing"}
    /\ manual_segment' = IF IsSome(audio_path) /\ cutOk
                         THEN TRUE ELSE manual_segment
    /\ UNCHANGED <<app_state, audio_path, audio_player, app_is_playing,
                   progress_receiver, processing_progress,
                   recognition_results, started, worker_pc, chan, sent>>
    /\ UNCHANGED <<srtVars, cutVars, playerVars, seen, manualCut>>

\* ---- WhisperApp::recognize_manual_segment --------------------------------
\* recognize_manual_segment that keeps a receiver it already holds.
RecognizeManualSegmentKeepsReceiver ==
    /\ app_state \notin {"Idle", "Processing"}
    /\ manual_segment
    /\ started < MaxWorkers
    /\ app_state' = "Processing"
    /\ processing_progress' = 0
    /\ recognition_results' = <<>>
    /\ started' = started + 1
    /\ progress_receiver' = IF IsSome(progress_receiver)
                            THEN progress_receiver ELSE Some(started + 1)
    /\ chan' = chan
    /\ worker_pc' = [worker_pc EXCEPT ![started + 1] = "recognizing"]
    /\ UNCHANGED <<audio_path, audio_player, app_is_playing, manual_segment,
                   sent>>
    /\ UNCHANGED <<srtVars, cutVars, playerVars, seen, manualCut>>

\* The receiver that was held is dropped with the messages waiting in it.
RecognizeManualSegment ==
    /\ app_state \notin {"Idle", "Processing"}
    /\ manual_segment
    /\ started < MaxWorkers
    /\ app_state' = "Processing"
    /\ processing_progress' = 0
    /\ recognition_results' = <<>>
    /\ started' = started + 1
    /\ progress_receiver' = Some(started + 1)
    /\ chan' = [w \in Workers |-> IF w = started + 1 THEN chan[w] ELSE <<>>]
    /\ worker_pc' = [worker_pc EXCEPT ![started + 1] = "recognizing"]
    /\ UNCHANGED <<audio_path, audio_player, app_is_playing, manual_segment,
                   sent>>
    /\ UNCHANGED <<srtVars, cutVars, playerVars, seen, manualCut>>

\* ---- the recognition thread ----------------------------------------------
\* tx.send(msg): the message waits in the channel while the receiver lives;
\* a send after the receiver is dropped fails and the thread ignores it.
Send(w, kind) ==
    /\ sent' = [sent EXCEPT ![w] = Append(@, kind)]
    /\ chan' = IF progress_receiver = Some(w)
               THEN [chan EXCEPT ![w] = Append(@, kind)]
               ELSE chan

Outputs(w) == Len(SelectSeq(sent[w], LAMBDA k : k = "RealtimeOutput"))

\* recognition::recognize_single_segment reports a line of whisper's output.
WorkerOutput(w) ==
    /\ worker_pc[w] = "recognizing"
    /\ Outputs(w) < MaxOutput
    /\ Send(w, "RealtimeOutput")
    /\ UNCHANGED <<app_state, audio_path, audio_player, app_is_playing,
                   manual_segment, progress_receiver, processing_progress,
                   recognition_results, started, worker_pc>>
    /\ UNCHANGED <<srtVars, cutVars, playerVars, seen, manualCut>>

\* recognize_single_segment returned Ok: tx.send(Result), then
\* tx.send(Progress).
WorkerSendResult(w) ==
    /\ worker_pc[w] = "recognizing"
    /\ Send(w, "Result")
    /\ worker_pc' = [worker_pc EXCEPT ![w] = "progress"]
    /\ UNCHANGED <<app_state, audio_path, audio_player, app_is_playing,
                   manual_segment, progress_receiver, processing_progress,
                   recognition_results, started>>
    /\ UNCHANGED <<srtVars, cutVars, playerVars, seen, manualCut>>

WorkerSendProgress(w) ==
    /\ worker_pc[w] = "progress"
    /\ Send(w, "Progress")
    /\ worker_pc' = [worker_pc EXCEPT ![w] = "completing"]
    /\ UNCHANGED <<app_state, audio_path, audio_player, app_is_playing,
                   manual_segment, progress_receiver, processing_progress,
                   recognition_results, started>>
    /\ UNCHANGED <<srtVars, cutVars, playerVars, seen, manualCut>>

\* A thread that ends after the error message.
WorkerSendErrorAndExit(w) ==
    /\ worker_pc[w] = "recognizing"
    /\ Send(w, "Error")
    /\ worker_pc' = [worker_pc EXCEPT ![w] = "done"]
    /\ UNCHANGED <<app_state, audio_path, audio_player, app_is_playing,
                   manual_segment, progress_receiver, processing_progress,
                   recognition_results, started>>
    /\ UNCHANGED <<srtVars, cutVars, playerVars, seen, manualCut>>

\* recognize_single_segment returned Err: tx.send(Error).
WorkerSendError(w) ==
    /\ worker_pc[w] = "recognizing"
    /\ Send(w, "Error")
    /\ worker_pc' = [worker_pc EXCEPT ![w] = "completing"]
    /\ UNCHANGED <<app_state, audio_path, audio_player, app_is_playing,
                   manual_segment, progress_receiver, processing_progress,
                   recognition_results, started>>
    /\ UNCHANGED <<srtVars, cutVars, playerVars, seen, manualCut>>

\* After the match, on both paths: tx.send(Completed).
WorkerSendCompleted(w) ==
    /\ worker_pc[w] = "completing"
    /\ Send(w, "Completed")
    /\ worker_pc' = [worker_pc EXCEPT ![w] = "done"]
    /\ UNCHANGED <<app_state, audio_path, audio_player, app_is_playing,
                   manual_segment, progress_receiver, processing_progress,
                   recognition_results, started>>
    /\ UNCHANGED <<srtVars, cutVars, playerVars, seen, manualCut>>

\* ---- the message loop of update ------------------------------------------
Pushed(w, q) ==
    LET kept == SelectSeq(q, LAMBDA k : k \in {"Result", "RealtimeOutput",
                                                "Error"})
    IN [i \in 1..Len(kept) |-> [from |-> w, kind |-> kept[i]]]

HasKind(q, kind) == \E i \in 1..Len(q) : q[i] = kind

Poll ==
    /\ IsSome(progress_receiver)
    /\ LET w == progress_receiver[1]
           q == chan[w]
       IN /\ chan' = [chan EXCEPT ![w] = <<>>]
          /\ recognition_results' = recognition_results \o Pushed(w, q)
          /\ processing_progress' = IF HasKind(q, "Progress")
                                    THEN 1 ELSE processing_progress
          /\ IF HasKind(q, "Completed")
             THEN /\ app_state' = "AudioExtracted"
                  /\ progress_receiver' = None
             ELSE UNCHANGED <<app_state, progress_receiver>>
    /\ UNCHANGED <<audio_path, audio_player, app_is_playing, manual_segment,
                   started, worker_pc, sent>>
    /\ UNCHANGED <<srtVars, cutVars, playerVars, seen, manualCut>>

WorkerNext(w) ==
    \/ WorkerOutput(w)
    \/ WorkerSendResult(w)
    \/ WorkerSendProgress(w)
    \/ WorkerSendError(w)
    \/ WorkerSendCompleted(w)

NextApp ==
    \/ \E isAudio \in BOOLEAN, extractOk \in BOOLEAN, playerOk \in BOOLEAN :
           HandleDroppedFile(isAudio, extractOk, playerOk)
    \/ PlayPauseClicked
    \/ \E cutOk \in BOOLEAN : CutManualSegment(cutOk)
    \/ RecognizeManualSegment
    \/ Poll
    \/ \E w \in Workers : WorkerNext(w)

SpecApp == InitNew /\ [][NextApp]_vars

\* The recognition alone.  The Play / Pause button and the outcome of
\* AudioPlayer::new write the player and the window's is_playing only, and
\* nothing of the recognition reads them: the button is left out and the
\* window stays without a player.
NextRecognition ==
    \/ \E isAudio \in BOOLEAN, extractOk \in BOOLEAN :
           HandleDroppedFile(isAudio, extractOk, FALSE)
    \/ \E cutOk \in BOOLEAN : CutManualSegment(cutOk)
    \/ RecognizeManualSegment
    \/ Poll
    \/ \E w \in Workers : WorkerNext(w)

SpecRecognition == InitNew /\ [][NextRecognition]_vars

\* update runs on every frame, and a thread that can take a step takes one.
SpecRecognitionFair ==
    /\ SpecRecognition
    /\ WF_vars(Poll)
    /\ WF_vars(\E w \in Workers : WorkerNext(w))

\* ==== srt_merger ==========================================================
\* A SubtitleEntry is [index, start_time, end_time, text]; times are whole
\* numbers of a common unit, and text stands for the lines of the entry.
SubtitleEntry(i, s, e, t) ==
    [index |-> i, start_time |-> s, end_time |-> e, text |-> t]

\* ---- adjust_segment_times ------------------------------------------------
AdjustSegmentTimes(subs, offset) ==
    [k \in 1..Len(subs) |->
        SubtitleEntry(subs[k].index, subs[k].start_time + offset,
                      subs[k].end_time + offset, subs[k].text)]

\* ---- merge_subtitles -----------------------------------------------------
\* sort_by is a stable sort: of two entries with the same start time the one
\* that came first stays first.
InsertByStart(sorted, e) ==
    LET after == {k \in 1..Len(sorted) : sorted[k].start_time > e.start_time}
        at == IF after = {} THEN Len(sorted) + 1
              ELSE CHOOSE k \in after : \A j \in after : k <= j
    IN SubSeq(sorted, 1, at - 1) \o <<e>> \o SubSeq(sorted, at, Len(sorted))

RECURSIVE SortByStart(_)
SortByStart(subs) ==
    IF subs = <<>> THEN <<>>
    ELSE InsertByStart(SortByStart(SubSeq(subs, 1, Len(subs) - 1)),
                       subs[Len(subs)])

Renumber(subs) ==
    [k \in 1..Len(subs) |->
        SubtitleEntry(k, subs[k].start_time, subs[k].end_time, subs[k].text)]

\* merge_subtitles without the sort.
MergeSubtitlesUnsorted(complete, segment) == Renumber(complete \o segment)

MergeSubtitles(complete, segment) ==
    Renumber(SortByStart(complete \o segment))

\* ---- insert_segment_subtitle ---------------------------------------------
\* What parse_srt_file can return: it keeps an entry only when both times
\* are at least 0 and the text is not empty; the index is the one written
\* in the file.
ParsedEntries ==
    {SubtitleEntry(i, s, s + 1, t) :
        i \in {1, 7}, s \in 0..MaxStart, t \in {"a", "b"}}

ParsedFiles(n) == UNION {[1..k -> ParsedEntries] : k \in 0..n}

Offsets == {0, MaxStart}

InitMerge ==
    /\ InitNewPlayer
    /\ InitNoCutAudio
    /\ typed = <<>>
    /\ time_str = <<>>
    /\ result = Pending
    /\ complete_subs \in ParsedFiles(MaxSubs)
    /\ segment_subs \in ParsedFiles(MaxSubs - Len(complete_subs))
    /\ segment_start_time \in Offsets
    /\ adjusted_segment = <<>>
    /\ merged = <<>>
    /\ srt_pc = "parsed"

AdjustSegmentTimesCall ==
    /\ srt_pc = "parsed"
    /\ adjusted_segment' = AdjustSegmentTimes(segment_subs, segment_start_time)
    /\ srt_pc' = "adjusted"
    /\ UNCHANGED <<complete_subs, segment_subs, segment_start_time, merged>>
    /\ UNCHANGED <<cutVars, appVars, playerVars, seen, manualCut>>

MergeSubtitlesCall ==
    /\ srt_pc = "adjusted"
    /\ merged' = MergeSubtitles(complete_subs, adjusted_segment)
    /\ srt_pc' = "merged"
    /\ UNCHANGED <<complete_subs, segment_subs, segment_start_time,
                   adjusted_segment>>
    /\ UNCHANGED <<cutVars, appVars, playerVars, seen, manualCut>>

NextMerge ==
    \/ AdjustSegmentTimesCall
    \/ MergeSubtitlesCall

SpecMerge == InitMerge /\ [][NextMerge]_vars

\* ==== ffmpeg::cut_audio ===================================================
\* The file that is cut, and the path stem_NNN.ext of segment n.
AudioPath == [file |-> "audio", n |-> 0]

SegmentPath(n) == [file |-> "segment", n |-> n]

\* How Command::output may end: the process ran and succeeded, it could not
\* be started (the `?`), or it ended with a failure status.
Outcomes == {"ok", "spawn_err", "exit_err"}

\* One ffmpeg command: -ss ss, -t t when there is one, the output path.
FfmpegCall(ss, t, out, outcome) ==
    [ss |-> ss, t |-> t, out |-> out, outcome |-> outcome]

\* Cut points are taken as they come: cut_audio does not look at their order.
CutPoints == UNION {[1..k -> 1..MaxCutTime] : k \in 0..MaxCuts}

InitCutAudio ==
    /\ InitNewPlayer
    /\ InitNoSubtitles
    /\ typed = <<>>
    /\ time_str = <<>>
    /\ result = Pending
    /\ cut_points \in CutPoints
    /\ cut_pc = "called"
    /\ cut_start_time = 0
    /\ segments = <<>>
    /\ ffmpeg_calls = <<>>
    /\ cut_result = Pending

\* Lines 34-40: without cut points the original file is the only segment.
CutAudioBegin ==
    /\ cut_pc = "called"
    /\ IF cut_points = <<>>
       THEN /\ cut_result' = Ok(<<AudioPath>>)
            /\ cut_pc' = "returned"
       ELSE /\ cut_result' = cut_result
            /\ cut_pc' = "loop"
    /\ segments' = <<>>
    /\ cut_start_time' = 0
    /\ UNCHANGED <<cut_points, ffmpeg_calls>>
    /\ UNCHANGED <<srtVars, appVars, playerVars, seen, manualCut>>

\* A pass of the loop that leaves start_time where it was.
CutSegmentKeepsStart(outcome) ==
    /\ cut_pc = "loop"
    /\ LET i == Len(segments)
           cut_point == cut_points[i + 1]
           output_path == SegmentPath(i)
           duration_ == cut_point - cut_start_time
       IN /\ ffmpeg_calls' = Append(ffmpeg_calls,
                 FfmpegCall(cut_start_time, Some(duration_), output_path,
                            outcome))
          /\ IF outcome # "ok"
             THEN /\ cut_result' = Err("cut failed")
                  /\ cut_pc' = "returned"
                  /\ UNCHANGED <<segments, cut_start_time>>
             ELSE /\ segments' = Append(segments, output_path)
                  /\ cut_start_time' = cut_start_time
                  /\ cut_pc' = IF i + 1 = Len(cut_points)
                               THEN "last" ELSE "loop"
                  /\ cut_result' = cut_result
    /\ UNCHANGED cut_points
    /\ UNCHANGED <<srtVars, appVars, playerVars, seen, manualCut>>

\* Lines 48-73: one pass of the loop over the cut points.
CutSegment(outcome) ==
    /\ cut_pc = "loop"
    /\ LET i == Len(segments)
           cut_point == cut_points[i + 1]
           output_path == SegmentPath(i)
           duration_ == cut_point - cut_start_time
       IN /\ ffmpeg_calls' = Append(ffmpeg_calls,
                 FfmpegCall(cut_start_time, Some(duration_), output_path,
                            outcome))
          /\ IF outcome # "ok"
             THEN /\ cut_result' = Err("cut failed")
                  /\ cut_pc' = "returned"
                  /\ UNCHANGED <<segments, cut_start_time>>
             ELSE /\ segments' = Append(segments, output_path)
                  /\ cut_start_time' = cut_point
                  /\ cut_pc' = IF i + 1 = Len(cut_points)
                               THEN "last" ELSE "loop"
                  /\ cut_result' = cut_result
    /\ UNCHANGED cut_points
    /\ UNCHANGED <<srtVars, appVars, playerVars, seen, manualCut>>

\* Lines 75-96: the last segment, from the last cut point to the end.
CutLastSegment(outcome) ==
    /\ cut_pc = "last"
    /\ LET output_path == SegmentPath(Len(cut_points))
       IN /\ ffmpeg_calls' = Append(ffmpeg_calls,
                 FfmpegCall(cut_start_time, None, output_path, outcome))
          /\ IF outcome # "ok"
             THEN /\ cut_result' = Err("cut of the last segment failed")
                  /\ UNCHANGED segments
             ELSE /\ segments' = Append(segments, output_path)
                  /\ cut_result' = Ok(segments')
    /\ cut_pc' = "returned"
    /\ UNCHANGED <<cut_points, cut_start_time>>
    /\ UNCHANGED <<srtVars, appVars, playerVars, seen, manualCut>>

NextCutAudio ==
    \/ CutAudioBegin
    \/ \E outcome \in Outcomes : CutSegment(outcome)
    \/ \E outcome \in Outcomes : CutLastSegment(outcome)

SpecCutAudio == InitCutAudio /\ [][NextCutAudio]_vars

\* ==== properties ==========================================================

\* A step in which a seek call returns to its caller.
SeekReturns == pc' = "idle" /\ lastOp' = "seek" /\ since' = 0 /\ now' = now

\* The bound of [0, dur] nearest to a target outside of it.
NearestBound(p, dur) == IF p < 0 THEN 0 ELSE dur

\* C1: a seek to a target p within [0, duration] whose replacement source
\* opens and decodes returns with position() = p, whatever the player did
\* before and whether it is playing or paused.
C1_SeekThenPosition ==
    [][(SeekReturns /\ opened' /\ req' \in 0..duration)
          => Position' = req']_vars

C1_Witness ==
    /\ pc = "idle" /\ lastOp = "seek" /\ opened /\ since = 0
    /\ is_playing /\ req >= OneSecond /\ req <= duration
    /\ IsSome(temp_seek_file)
    /\ Position = req

\* C2, as claimed: every seek to a target outside [0, duration] returns with
\* position() at the nearest bound.
C2_OutOfRangeAlwaysLands ==
    [][(SeekReturns /\ req' \notin 0..duration)
          => Position' = NearestBound(req', duration)]_vars

\* C2, amended: a target outside [0, duration] is clamped to the nearest
\* bound and the seek goes on with it; when the replacement source opens and
\* decodes, position() is that bound when the seek returns.
C2_OutOfRangeClamped ==
    [][/\ (pc = "idle" /\ pc' # "idle" /\ req' \notin 0..duration)
            => seek_pos' = NearestBound(req', duration)
       /\ (SeekReturns /\ req' \notin 0..duration)
            => /\ seek_pos' = NearestBound(req', duration)
               /\ opened' => Position' = NearestBound(req', duration)]_vars

C2_Witness ==
    /\ pc = "idle" /\ lastOp = "seek" /\ opened /\ since = 0
    /\ req > duration /\ duration >= OneSecond
    /\ Position = duration

\* C3: position() is within [0, duration] in every reachable state.
C3_PositionInRange == 0 <= Position /\ Position <= duration

C3_Witness ==
    /\ pc = "idle" /\ lastOp = "seek" /\ is_playing
    /\ duration > 0 /\ now - start_time > duration
    /\ Position = duration

\* C4: while the player is playing and no call is made, position() after t
\* ticks is min(q + t, duration) for the earlier reading q, and so never
\* decreases.
C4_PlayingAdvances ==
    [][(pc = "idle" /\ pc' = "idle" /\ is_playing /\ now' > now)
          => /\ Position' = Min(Position + (now' - now), duration)
             /\ Position' >= Position]_vars

C4_Witness ==
    /\ pc = "idle" /\ lastOp = "play" /\ is_playing /\ since >= 2
    /\ duration >= 1 /\ now - start_time > duration
    /\ Position = duration

\* C5: pause() freezes position() at the value it had when pause() was
\* called, and that value is returned until the next play() or seek(),
\* however much time passes.
C5_PauseFreezes ==
    [][/\ Pause => Position' = Position
       /\ (lastOp = "pause" /\ lastOp' = "pause" /\ pc' = "idle")
            => Position' = Position]_vars

C5_Witness ==
    /\ pc = "idle" /\ lastOp = "pause" /\ prevOp = "play" /\ since >= 1
    /\ IsSome(paused_at) /\ Position > 0 /\ Position < duration
    /\ now - start_time > Position

\* C6: play() on a player that is playing changes neither the playing flag,
\* the start anchor, the paused offset, position() nor the queued audio.
C6_PlayWhilePlayingNoOp ==
    [][((\E openOk \in BOOLEAN : Play(openOk)) /\ is_playing)
          => /\ UNCHANGED <<is_playing, start_time, paused_at, sink>>
             /\ Position' = Position]_vars

\* C7: a second pause() right after a pause(), any time later, leaves the
\* playing flag, the paused offset and position() as the first one left them.
C7_PauseTwice ==
    [][(lastOp = "pause" /\ Pause)
          => /\ UNCHANGED <<is_playing, paused_at, sink>>
             /\ Position' = Position]_vars

C7_Witness ==
    /\ pc = "idle" /\ lastOp = "pause" /\ prevOp = "pause"
    /\ ~is_playing /\ Position > 0 /\ Position < duration
    /\ now - start_time > Position

\* C8: play() after a pause() at p sets the start anchor to now - p, clears
\* the paused offset and sets the playing flag, so position() is p and after
\* t ticks min(p + t, duration); on a new player play() starts from 0.
C8_ResumeFromPause ==
    [][/\ ((\E openOk \in BOOLEAN : Play(openOk)) /\ lastOp = "pause")
            => /\ start_time' = now - Position
               /\ paused_at' = None
               /\ is_playing'
               /\ Position' = Position
       /\ ((\E openOk \in BOOLEAN : Play(openOk)) /\ lastOp = "new")
            => is_playing' /\ Position' = 0
       /\ (lastOp = "play" /\ lastOp' = "play" /\ now' > now)
            => Position' = Min(Position + (now' - now), duration)]_vars

C8_Witness ==
    /\ pc = "idle" /\ lastOp = "play" /\ prevOp = "pause" /\ since >= 1
    /\ is_playing /\ Position > since /\ Position < duration
    /\ Position = now - start_time

\* C9, as claimed: when ffmpeg fails the seek returns with position() at the
\* clamped target and the registered temporary file as it was.
C9_FallbackAlwaysLands ==
    [][(pc = "fallback_open" /\ SeekReturns)
          => /\ Position' = seek_pos
             /\ temp_seek_file' = temp_seek_file]_vars

\* C9, amended: when ffmpeg fails the seek goes on to open the original
\* file and registers no temporary file; when the original file opens and
\* decodes it is enqueued skipped to the clamped target and position() is
\* that target when the seek returns.
C9_FallbackLands ==
    [][/\ (\E wrote \in BOOLEAN : CreateSeekSegment(FALSE, wrote))
            => pc' = "fallback_open" /\ temp_seek_file' = temp_seek_file
       /\ (pc = "fallback_open" /\ SeekReturns)
            => /\ temp_seek_file' = temp_seek_file
               /\ seek_pos >= OneSecond
               /\ opened' => /\ Position' = seek_pos
                             /\ sink'.paused = ~is_playing
                             /\ seek_pos < duration
                                  => /\ sink'.src = "orig"
                                     /\ sink'.pos = seek_pos]_vars

C9_Witness ==
    /\ pc = "idle" /\ lastOp = "seek" /\ opened /\ since = 0
    /\ seek_pos >= OneSecond /\ Position = seek_pos
    /\ sink.src = "orig" /\ sink.pos = seek_pos

\* C10: at most one temporary seek file of the player is on disk in every
\* reachable state, the states inside a seek included.
C10_AtMostOneTempFile == Cardinality(disk) <= 1

\* C11: once the player is dropped, no temporary seek file that it created
\* is left on disk.
C11_NoFileAfterDrop == pc = "dropped" => disk = {}

\* C12: a seek whose replacement source cannot be opened or decoded changes
\* nothing: the pipeline the call found is still the one held and still
\* has its audio, and the playing flag, the start anchor, the paused offset,
\* position() and the registered temporary file are as the call found them.
C12_FailedSeekNoOp ==
    [][(pc # "idle" /\ SeekReturns /\ ~opened')
          => /\ sink' = old_sink
             /\ temp_seek_file' = old_temp
             /\ UNCHANGED <<is_playing, start_time, paused_at>>
             /\ Position' = Position]_vars

\* C13: a seek whose clamped target is at or past the duration leaves the
\* player paused with position() = duration, whether it was playing or
\* paused before; stated for the seeks whose replacement source opens.
C13_SeekToEndPauses ==
    [][(SeekReturns /\ opened' /\ req' >= duration)
          => /\ ~is_playing'
             /\ IsSome(paused_at')
             /\ Position' = duration]_vars

\* C14: AudioPlayer::new returns an error, and there is no player to call,
\* when the output device, the output sink, the file open or the decode
\* fails; when it succeeds the new player is not playing, its sink is
\* paused, its paused offset is 0, position() is 0 and no temporary file is
\* registered.
C14_NewFailsOrPaused ==
    [][/\ pc = "unbuilt"
            => \A devOk \in BOOLEAN, sinkOk \in BOOLEAN, load1 \in Loads,
                  load2 \in Loads, dur \in Durations :
                 New(devOk, sinkOk, load1, load2, dur)
                   => IF devOk /\ sinkOk /\ load1 = "ok" /\ load2 = "ok"
                      THEN /\ pc' = "idle"
                           /\ ~is_playing'
                           /\ sink'.paused
                           /\ paused_at' = Some(0)
                           /\ Position' = 0
                           /\ temp_seek_file' = None
                           /\ disk' = {}
                      ELSE pc' = "failed"
       /\ pc # "failed"]_vars

C14_Witness ==
    /\ pc = "idle" /\ lastOp = "new" /\ prevOp = "none" /\ since = 0
    /\ duration = MaxDuration
    /\ sink.src = "orig" /\ sink.paused
    /\ ~is_playing /\ Position = 0 /\ temp_seek_file = None

C18_OneTimingSource == pc = "idle" => (is_playing <=> ~IsSome(paused_at))

C18_Witness ==
    /\ pc = "idle" /\ lastOp = "seek" /\ ~opened /\ prevOp = "play"
    /\ is_playing /\ ~IsSome(paused_at) /\ sink.src = "none"

\* C19: during a fast-path seek the temporary file registered before it is
\* deleted only once the newly extracted file has been opened and decoded,
\* and a seek whose new file fails to open or decode deletes nothing.
C19_DeleteOnlyAfterOpen ==
    [][/\ (/\ pc # "idle"
           /\ IsSome(old_temp)
           /\ old_temp[1] \in disk
           /\ old_temp[1] \notin disk')
            => (pc = "fast_open" /\ SeekReturns /\ opened')
       /\ (pc = "fast_open" /\ SeekReturns /\ ~opened' /\ IsSome(old_temp))
            => /\ old_temp[1] \in disk'
               /\ temp_seek_file' = old_temp]_vars

\* C20, as claimed: every seek keeps the play state: a playing player is
\* playing afterwards with the start anchor at now - p and no paused offset,
\* a player that is not playing stays so with the paused offset at p and the
\* new sink paused (p the target after the clamp).
C20_SeekAlwaysSetsClock ==
    [][SeekReturns
          => /\ is_playing' = is_playing
             /\ IF is_playing
                THEN /\ start_time' = now - seek_pos'
                     /\ paused_at' = None
                ELSE /\ paused_at' = Some(seek_pos')
                     /\ sink'.paused]_vars

\* C20, amended: every seek keeps the playing flag; when its replacement
\* source opens and decodes, a playing player gets the start anchor
\* now - p, no paused offset and a started sink, and a player that is not
\* playing gets the paused offset p and a paused sink; when it does not,
\* the start anchor and the paused offset stay as they were.
C20_SeekKeepsPlayState ==
    [][SeekReturns
          => /\ is_playing' = is_playing
             /\ IF opened'
                THEN IF is_playing
                     THEN /\ start_time' = now - seek_pos'
                          /\ paused_at' = None
                          /\ ~sink'.paused
                     ELSE /\ paused_at' = Some(seek_pos')
                          /\ sink'.paused
                ELSE UNCHANGED <<start_time, paused_at>>]_vars

C20_Witness ==
    /\ pc = "idle" /\ lastOp = "seek" /\ prevOp = "pause" /\ opened
    /\ ~is_playing /\ paused_at = Some(seek_pos) /\ seek_pos >= OneSecond
    /\ sink.paused /\ sink.src = "seg" /\ start_time < 0

\* What a sink holds when a source of the given kind, positioned at offset
\* pos of the audio, was enqueued on it.
Holds(s, kind, pos) == pos < duration => (s.src = kind /\ s.pos = pos)

\* C21, as claimed: every seek picks its path from the clamped target alone:
\* below 1.0 s the transcoder is not run and the original file, skipped to
\* the target, is the source; from 1.0 s on the transcoder is run exactly
\* once, and when it succeeds the extracted file is enqueued without a skip
\* and is the registered temporary file.
C21_PathAlwaysFromTarget ==
    [][/\ (pc = "transcode" /\ pc' # "transcode") => seek_pos >= OneSecond
       /\ pc' = "transcode" => pc \in {"idle", "transcode"}
       /\ SeekReturns
            => IF seek_pos' < OneSecond
               THEN /\ pc = "slow_open"
                    /\ Holds(sink', "orig", seek_pos')
               ELSE /\ pc \in {"fast_open", "fallback_open"}
                    /\ pc = "fast_open"
                         => /\ Holds(sink', "seg", seek_pos')
                            /\ temp_seek_file' = seek_file]_vars

\* C21, amended: once the new sink is created, seek picks its path from the
\* clamped target alone: below 1.0 s the transcoder is not run and, when the
\* original file opens, it is the source, skipped to the target; from 1.0 s
\* on the transcoder is run exactly once, and when it succeeds and its file
\* opens, that file is enqueued without a skip and is the registered
\* temporary file.
C21_PathFromTarget ==
    [][/\ (pc = "idle" /\ pc' \notin {"idle", "dropped"})
            => pc' = IF seek_pos' < OneSecond THEN "slow_open"
                     ELSE "transcode"
       /\ (pc = "transcode" /\ pc' # "transcode")
            => seek_pos >= OneSecond /\ pc' \in {"cleanup", "fallback_open"}
       /\ pc' = "transcode" => pc \in {"idle", "transcode"}
       /\ (SeekReturns /\ pc # "idle")
            => IF seek_pos < OneSecond
               THEN /\ pc = "slow_open"
                    /\ opened' => Holds(sink', "orig", seek_pos)
                    /\ UNCHANGED <<temp_seek_file, disk>>
               ELSE /\ pc \in {"fast_open", "fallback_open"}
                    /\ (pc = "fast_open" /\ opened')
                         => /\ Holds(sink', "seg", seek_pos)
                            /\ temp_seek_file' = seek_file
                            /\ seek_file[1] \in disk']_vars

C21_Witness ==
    /\ pc = "idle" /\ lastOp = "seek" /\ prevOp = "play" /\ opened
    /\ is_playing /\ seek_pos >= OneSecond /\ seek_pos < duration
    /\ sink.src = "seg" /\ sink.pos = seek_pos
    /\ IsSome(temp_seek_file) /\ disk = {temp_seek_file[1]}

\* C22: in every seek that takes the fast path the window handed to the
\* transcoder starts at the clamped target and is min(duration - position,
\* 30 s) long: never negative, never above 30 s, never past the end of the
\* file, and shorter than 30 s only when it ends with the file; the
\* extracted file that is enqueued covers that window.
C22_WindowBounded ==
    [][/\ (pc = "transcode" /\ pc' \in {"cleanup", "fallback_open"})
            => LET t == DurationToExtract(duration, seek_pos)
               IN /\ seek_pos = Clamp(req, duration)
                  /\ 0 <= t /\ t <= SeekWindow
                  /\ seek_pos + t <= duration
                  /\ t < SeekWindow => seek_pos + t = duration
       /\ (pc = "fast_open" /\ SeekReturns /\ opened' /\ sink'.src = "seg")
            => /\ sink'.pos = seek_pos
               /\ sink'.end - sink'.pos <= SeekWindow
               /\ sink'.end <= duration
               /\ sink'.end - sink'.pos < SeekWindow
                    => sink'.end = duration]_vars

C22_Witness ==
    /\ pc = "idle" /\ lastOp = "seek" /\ opened /\ sink.src = "seg"
    /\ duration > SeekWindow /\ seek_pos = OneSecond
    /\ sink.pos = seek_pos /\ sink.end = seek_pos + SeekWindow
    /\ sink.end < duration

C24_SinkRunsWithClock ==
    pc = "idle"
      => /\ is_playing <=> ~sink.paused
         /\ (is_playing /\ Position < duration) => sink.src # "none"

\* C25: whenever the window holds a player, the window's own is_playing flag
\* equals the playing flag of that player, also after a file is dropped while
\* audio plays and the player is replaced by a new, paused one.
C25_AppFlagMatchesPlayer ==
    IsSome(audio_player) => app_is_playing = audio_player[1].is_playing

\* C28: whenever the state of the window is AudioExtracted, an audio path is
\* set, for every interleaving of file drops, extraction outcomes, starts of
\* a recognition and Completed messages of a thread.
C28_ExtractedHasAudioPath ==
    app_state = "AudioExtracted" => IsSome(audio_path)

\* The thread w has sent, or tried to send, Completed.
SentCompleted(w) == HasKind(sent[w], "Completed")

\* C26: a recognition thread sends Completed as its last message on every
\* path, also when the recognition fails, after every Progress, Result and
\* Error message; and when update keeps running and the thread finishes, a
\* window in state Processing returns to AudioExtracted with no receiver.
C26_CompletedIsLast ==
    /\ [](\A w \in Workers :
            /\ worker_pc[w] = "done"
                 => /\ sent[w] # <<>>
                    /\ sent[w][Len(sent[w])] = "Completed"
                    /\ HasKind(sent[w], "Error") \/ HasKind(sent[w], "Result")
            /\ \A i \in 1..Len(sent[w]) :
                   sent[w][i] = "Completed" => i = Len(sent[w]))
    /\ (app_state = "Processing")
           ~> (app_state = "AudioExtracted" /\ progress_receiver = None)

\* A recognition failed, its thread ended, and update has taken Completed
\* from the channel and left Processing.
C26_Witness ==
    /\ started = 1
    /\ worker_pc[1] = "done"
    /\ sent[1] = <<"RealtimeOutput", "Error", "Completed">>
    /\ app_state = "AudioExtracted"
    /\ progress_receiver = None
    /\ Len(recognition_results) = 2
    /\ chan[1] = <<>>

\* C27: once a new recognition is started, the receiver of the earlier one
\* is gone: update reads only the channel of the thread started last, what
\* the earlier thread had sent is dropped with its receiver, every entry of
\* the result list comes from the thread started last, and a send of an
\* earlier thread changes neither state nor progress nor results.
C27_OnlyLatestWorker ==
    [][ /\ IsSome(progress_receiver') => progress_receiver'[1] = started'
        /\ \A w \in Workers : w # started' => chan'[w] = <<>>
        /\ \A i \in 1..Len(recognition_results') :
               recognition_results'[i].from = started'
        /\ \A w \in Workers :
               (w # started /\ sent'[w] # sent[w])
                   => UNCHANGED <<app_state, processing_progress,
                                  recognition_results, progress_receiver>>
      ]_vars

\* A second recognition runs while the thread of the first, whose receiver
\* was replaced, has sent all its messages; none of them reached the window.
C27_Witness ==
    /\ started = 2
    /\ progress_receiver = Some(2)
    /\ app_state = "Processing"
    /\ worker_pc[1] = "done"
    /\ Len(sent[1]) >= 3
    /\ sent[2] = <<>>
    /\ recognition_results = <<>>
    /\ processing_progress = 0

\* An entry without its number.
Body(e) == <<e.start_time, e.end_time, e.text>>

\* How often an entry with the body b occurs in subs.
Occurs(subs, b) == Cardinality({k \in 1..Len(subs) : Body(subs[k]) = b})

CutBefore(k) == IF k = 1 THEN 0 ELSE cut_points[k - 1]

\* C30: with n >= 1 cut points cut_audio returns n + 1 segment paths in
\* order; the command of segment k starts at the cut point before it (0 for
\* the first), has the length up to the next cut point, and the last has no
\* length and runs to the end; without cut points only the original file is
\* returned and ffmpeg is not run; and when an ffmpeg command fails the call
\* returns an error and no list.
C30_CutAudioSegments ==
    cut_pc = "returned" =>
        LET n == Len(cut_points)
            failed == \E k \in 1..Len(ffmpeg_calls) :
                          ffmpeg_calls[k].outcome # "ok"
        IN /\ n = 0 => /\ cut_result.state = "ok"
                       /\ cut_result.val = <<AudioPath>>
                       /\ ffmpeg_calls = <<>>
           /\ failed <=> cut_result.state = "err"
           /\ (n >= 1 /\ ~failed)
                => /\ cut_result.state = "ok"
                   /\ Len(cut_result.val) = n + 1
                   /\ Len(ffmpeg_calls) = n + 1
                   /\ \A k \in 1..(n + 1) :
                        /\ cut_result.val[k] = SegmentPath(k - 1)
                        /\ ffmpeg_calls[k].out = SegmentPath(k - 1)
                        /\ ffmpeg_calls[k].ss = CutBefore(k)
                        /\ ffmpeg_calls[k].t
                             = IF k <= n
                               THEN Some(cut_points[k] - CutBefore(k))
                               ELSE None

\* Three cut points and four ffmpeg commands that all succeeded.
C30_Witness ==
    /\ cut_pc = "returned"
    /\ Len(cut_points) = 3
    /\ cut_points[1] < cut_points[2]
    /\ cut_points[2] < cut_points[3]
    /\ cut_result.state = "ok"
    /\ Len(cut_result.val) = 4
    /\ ffmpeg_calls[3].ss = cut_points[2]

====
